---- MODULE Spec2Model ----
(***************************************************************************)
(* A model of the SQLite MCP chatbot: the Tool Server of server.py (the    *)
(* add_data and read_data tools on one shared connection and cursor) and   *)
(* the chat client of client.py (the Gradio queue, handle_message, the     *)
(* interaction log and fetch_recent_interactions, clean_response).         *)
(*                                                                         *)
(* Texts are sequences of one-character strings, so that the regular       *)
(* expression of clean_response is matched character by character.         *)
(* SQL texts are drawn from a small set of statement shapes (Queries).     *)
(* A people row stands for (id, name, age, profession) with the three      *)
(* caller-chosen columns folded into one value; an interactions row is     *)
(* (id, prompt, response): the columns time_taken_sec and timestamp, which *)
(* no operation of either process reads back into a decision, are left out.*)
(***************************************************************************)
EXTENDS Integers, Sequences, FiniteSets, TLC

\* ------------------------------------------------------------------ bounds
MaxPieces == 5
MaxCalls == 3
MaxTurns == 2
MaxLogCalls == 2

\* ------------------------------------------------------------------- texts
OpenTag == <<"<", "t", "h", "i", "n", "k", ">">>
CloseTag == <<"<", "/", "t", "h", "i", "n", "k", ">">>

\* \s of the pattern and the characters str.strip() removes.
Whitespace == {" ", "\n", "\t"}

\* text[i..] starts with pat
StartsAt(text, i, pat) ==
    /\ i + Len(pat) - 1 <= Len(text)
    /\ \A k \in 1..Len(pat) : text[i + k - 1] = pat[k]

\* The first position >= i where </think> starts, 0 when there is none:
\* where the lazy .*? of the pattern stops.
RECURSIVE FirstClose(_, _)
FirstClose(text, i) ==
    IF i > Len(text) THEN 0
    ELSE IF StartsAt(text, i, CloseTag) THEN i
    ELSE FirstClose(text, i + 1)

\* The first position >= i that holds no whitespace: the greedy \s*.
RECURSIVE SkipSpace(_, _)
SkipSpace(text, i) ==
    IF i <= Len(text) /\ text[i] \in Whitespace THEN SkipSpace(text, i + 1) ELSE i

\* re.sub(r"<think>.*?</think>\s*", "", text, flags=re.DOTALL) from position i:
\* leftmost matches, left to right, never overlapping, in ONE pass.
RECURSIVE SubThink(_, _)
SubThink(text, i) ==
    IF i > Len(text) THEN <<>>
    ELSE IF StartsAt(text, i, OpenTag) /\ FirstClose(text, i + Len(OpenTag)) # 0
         THEN SubThink(text, SkipSpace(text, FirstClose(text, i + Len(OpenTag)) + Len(CloseTag)))
         ELSE <<text[i]>> \o SubThink(text, i + 1)

RECURSIVE LStrip(_)
LStrip(text) ==
    IF text # <<>> /\ Head(text) \in Whitespace THEN LStrip(Tail(text)) ELSE text

RECURSIVE RStrip(_)
RStrip(text) ==
    IF text # <<>> /\ text[Len(text)] \in Whitespace
    THEN RStrip(SubSeq(text, 1, Len(text) - 1))
    ELSE text

\* str.strip()
Strip(text) == RStrip(LStrip(text))

clean_response(text) == Strip(SubThink(text, 1))

\* A complete <think>...</think> block is left in the text.
HasThinkBlock(text) ==
    \E i \in 1..Len(text) :
        StartsAt(text, i, OpenTag) /\ FirstClose(text, i + Len(OpenTag)) # 0

\* The pieces reply texts are put together from.
Pieces == {OpenTag, CloseTag, <<"<", "t", "h">>, <<"i", "n", "k", ">">>, <<"a">>, <<" ">>}

RECURSIVE Flatten(_)
Flatten(ps) == IF ps = <<>> THEN <<>> ELSE Head(ps) \o Flatten(Tail(ps))

PieceSeqs == UNION {[1..n -> Pieces] : n \in 0..MaxPieces}

\* ------------------------------------------------------------ Record Store
\* The values of the caller-chosen columns (name, age, profession) of a people row.
Persons == {"Alice", "Bob"}

Query(kind, person) == [kind |-> kind, person |-> person]

\* The SQL texts callers pass: a valid INSERT into people, SELECT * FROM people,
\* DELETE FROM people, DELETE FROM interactions, and a text SQLite cannot parse.
Queries ==
    {Query("insert_person", p) : p \in Persons}
    \cup {Query(k, "-") : k \in {"select_people", "delete_people",
                                 "delete_interactions", "malformed"}}

\* demo.db after the CREATE TABLE IF NOT EXISTS statements and the commit:
\* two empty tables; seqP and seqI are the AUTOINCREMENT counters (sqlite_sequence).
EmptyStore == [people |-> {}, interactions |-> {}, seqP |-> 0, seqI |-> 0]

\* The rows of a table as tuples, in rowid order (ascending id).
RECURSIVE RowsById(_)
RowsById(rows) ==
    IF rows = {} THEN <<>>
    ELSE LET r == CHOOSE x \in rows : \A y \in rows : x.id <= y.id
         IN <<r>> \o RowsById(rows \ {r})

PersonTuple(r) == <<r.id, r.person>>

TuplesOf(rows) == [i \in 1..Len(rows) |-> PersonTuple(rows[i])]

\* Mutant of InsertPerson: the new row replaces the rows of the table.
InsertPersonReplacing(d, p) ==
    [d EXCEPT !.people = {[id |-> d.seqP + 1, person |-> p]},
              !.seqP = @ + 1]

\* INSERT INTO people ...: id INTEGER PRIMARY KEY AUTOINCREMENT takes the next
\* value of the counter, which a DELETE does not wind back.
InsertPerson(d, p) ==
    [d EXCEPT !.people = @ \cup {[id |-> d.seqP + 1, person |-> p]},
              !.seqP = @ + 1]

\* Python's sqlite3 (isolation_level "") opens a transaction before INSERT,
\* UPDATE, DELETE and REPLACE, and leaves it open until commit().
OpensTransaction(q) == q.kind \in {"insert_person", "delete_people", "delete_interactions"}

\* _cursor.execute(query) on the connection's view d of the store: the exception
\* it raises ("none" when it runs), the view afterwards, and the result set it
\* leaves on the cursor.
Execute(q, d) ==
    CASE q.kind = "insert_person" ->
            [raised |-> "none", db |-> InsertPerson(d, q.person), rows |-> <<>>]
      [] q.kind = "select_people" ->
            [raised |-> "none", db |-> d, rows |-> TuplesOf(RowsById(d.people))]
      [] q.kind = "delete_people" ->
            [raised |-> "none", db |-> [d EXCEPT !.people = {}], rows |-> <<>>]
      [] q.kind = "delete_interactions" ->
            [raised |-> "none", db |-> [d EXCEPT !.interactions = {}], rows |-> <<>>]
      [] OTHER ->
            [raised |-> "OperationalError", db |-> d, rows |-> <<>>]

\* ------------------------------------------------------------- Tool Server
VARIABLES
    db,         \* the store as the server's connection _conn sees it
    disk,       \* the committed store, as every other connection sees it
    inTx,       \* _conn holds an open write transaction
    cursorRows, \* the result set left on the shared _cursor, not yet fetched
    inflight,   \* remote tool calls received and not yet run
    nCalls,     \* tool calls issued so far
    lastResp,   \* the tool call that ran last, and what it returned
    inserted,   \* history: the people rows for whose INSERT add_data returned True
    wiped       \* history: those of them a DELETE FROM people has run over since

serverVars == <<db, disk, inTx, cursorRows, inflight, nCalls, lastResp, inserted, wiped>>

NoResp ==
    [id |-> 0, tool |-> "none", query |-> Query("none", "-"),
     ok |-> FALSE, rows |-> <<>>, escaped |-> FALSE]

\* Mutant of AddDataCatches: a clause that catches sqlite3.IntegrityError alone.
CatchesIntegrityErrorOnly(exc) == exc = "IntegrityError"

\* `except Exception as e:` of add_data: every sqlite3 error is an Exception.
AddDataCatches(exc) == TRUE

\* `except Exception as e:` of read_data.
ReadDataCatches(exc) == TRUE

\* Mutant of FetchAll: the rows an earlier call left on the shared cursor.
FetchAllLeftover(cursor) == cursorRows

\* results = _cursor.fetchall(): the rows left on the cursor.
FetchAll(cursor) == cursor

\* A client sends a tool call; calls may be in flight together.
CallTool(tool, q) ==
    /\ nCalls < MaxCalls
    /\ nCalls' = nCalls + 1
    /\ inflight' = inflight \cup {[id |-> nCalls + 1, tool |-> tool, query |-> q]}
    /\ UNCHANGED <<db, disk, inTx, cursorRows, lastResp, inserted, wiped>>

\* add_data(query): the whole tool function, run by the server's event loop
\* without a suspension point in it.
AddData(c) ==
    /\ c \in inflight
    /\ c.tool = "add_data"
    /\ inflight' = inflight \ {c}
    /\ LET out == Execute(c.query, db)
       IN IF out.raised = "none"
          THEN \* _cursor.execute(query); _conn.commit(); return True
               /\ db' = out.db
               /\ disk' = out.db
               /\ inTx' = FALSE
               /\ cursorRows' = out.rows
               /\ lastResp' = [id |-> c.id, tool |-> c.tool, query |-> c.query,
                               ok |-> TRUE, rows |-> <<>>, escaped |-> FALSE]
          ELSE \* the except clause: print the error, return False
               /\ cursorRows' = <<>>
               /\ lastResp' = [id |-> c.id, tool |-> c.tool, query |-> c.query,
                               ok |-> FALSE, rows |-> <<>>,
                               escaped |-> ~AddDataCatches(out.raised)]
               /\ UNCHANGED <<db, disk, inTx>>
    /\ inserted' = IF c.query.kind = "insert_person" /\ Execute(c.query, db).raised = "none"
                   THEN inserted \cup (Execute(c.query, db).db.people \ db.people)
                   ELSE inserted
    /\ wiped' = IF c.query.kind = "delete_people" THEN inserted ELSE wiped
    /\ UNCHANGED nCalls

\* read_data(query): execute, fetchall, return the rows; no commit.
ReadData(c) ==
    /\ c \in inflight
    /\ c.tool = "read_data"
    /\ inflight' = inflight \ {c}
    /\ LET out == Execute(c.query, db)
       IN IF out.raised = "none"
          THEN /\ db' = out.db
               /\ inTx' = (inTx \/ OpensTransaction(c.query))
               /\ cursorRows' = <<>>
               /\ lastResp' = [id |-> c.id, tool |-> c.tool, query |-> c.query,
                               ok |-> TRUE, rows |-> FetchAll(out.rows),
                               escaped |-> FALSE]
          ELSE \* the except clause: print the error, return []
               /\ cursorRows' = <<>>
               /\ lastResp' = [id |-> c.id, tool |-> c.tool, query |-> c.query,
                               ok |-> FALSE, rows |-> <<>>,
                               escaped |-> ~ReadDataCatches(out.raised)]
               /\ UNCHANGED <<db, inTx>>
    /\ wiped' = IF c.query.kind = "delete_people" THEN inserted ELSE wiped
    /\ UNCHANGED <<disk, nCalls, inserted>>

InitServer ==
    /\ db = EmptyStore
    /\ disk = EmptyStore
    /\ inTx = FALSE
    /\ cursorRows = <<>>
    /\ inflight = {}
    /\ nCalls = 0
    /\ lastResp = NoResp
    /\ inserted = {}
    /\ wiped = {}

\* ------------------------------------------------------------- chat client
Sessions == {1, 2}

\* The two listeners wired to on_submit: submit_btn.click and user_input.submit.
Listeners == {"click", "submit"}

Msgs == {<<"h", "i">>}

\* "⚠️" is written "!" here.
ErrorPrefix == <<"!", " ", "[", "E", "R", "R", "O", "R", "]", " ">>

EmptyPlaceholder ==
    <<"!", " ", "(", "e", "m", "p", "t", "y", " ",
      "r", "e", "s", "p", "o", "n", "s", "e", ")">>

ExcMessages == {<<"t", "i", "m", "e", "o", "u", "t">>}

RawReplies ==
    {<<"o", "k">>,
     OpenTag \o <<"x">> \o CloseTag \o <<" ", "y", "e", "s", "\n">>,
     OpenTag \o CloseTag}

\* What the agent does in a turn: raise in agent.run(...), raise while
\* handler.stream_events() is iterated, raise from `await handler`, or return a reply.
AgentOutcomes ==
    {[at |-> a, text |-> e] : a \in {"run", "stream", "await"}, e \in ExcMessages}
    \cup {[at |-> "ok", text |-> t] : t \in RawReplies}

\* The statements of async_handle_message that stand inside its try block.
InsideTry(at) == at = "await"

\* async_handle_message(msg) for one outcome of the agent: whether an exception
\* leaves the coroutine, and the reply it returns otherwise.
async_handle_message(msg, outcome) ==
    IF outcome.at # "ok" /\ ~InsideTry(outcome.at)
    THEN [raised |-> TRUE, reply |-> <<>>]
    ELSE LET raw_text == IF outcome.at = "ok" THEN outcome.text
                         ELSE ErrorPrefix \o outcome.text
             cleaned == clean_response(raw_text)
         IN [raised |-> FALSE,
             reply |-> IF cleaned # <<>> THEN cleaned ELSE EmptyPlaceholder]

Entry(role, content) == [role |-> role, content |-> content]

\* Mutant of LogInteraction: the row is never committed.
LogInteractionUncommitted(d, prompt, response) == d

\* cursor.execute("INSERT INTO interactions (prompt, response, time_taken_sec) ...")
\* and db_conn.commit() of handle_message.
LogInteraction(d, prompt, response) ==
    [d EXCEPT !.interactions = @ \cup {[id |-> d.seqI + 1, prompt |-> prompt,
                                        response |-> response]},
              !.seqI = @ + 1]

\* Mutant of LogCatches: no except clause around the recording.
LogCatchesNothing(exc) == FALSE

\* `except Exception as e: print(f"[DB ERROR] {e}")` of handle_message.
LogCatches(exc) == TRUE

\* Mutant of concurrency_count: two workers.
TwoAtATime == 1 + 1

\* Gradio runs at most this many on_submit events at a time.
concurrency_count == 1

\* limit=5 of fetch_recent_interactions.
DefaultLimit == 5

\* Mutant of RowsByIdDesc: ORDER BY id ASC.
RowsByIdAscending(rows) == RowsById(rows)

RECURSIVE RowsByIdDesc(_)
RowsByIdDesc(rows) ==
    IF rows = {} THEN <<>>
    ELSE LET r == CHOOSE x \in rows : \A y \in rows : x.id >= y.id
         IN <<r>> \o RowsByIdDesc(rows \ {r})

\* LIMIT ?: a negative limit is no limit in SQLite.
Limit(rows, limit) ==
    IF limit < 0 \/ limit >= Len(rows) THEN rows ELSE SubSeq(rows, 1, limit)

\* The columns the SELECT of fetch_recent_interactions names (the id is not one).
LogTuple(r) == <<r.prompt, r.response>>

ErrorRow ==
    <<<<"E", "r", "r", "o", "r", " ", "f", "e", "t", "c", "h", "i", "n", "g", " ",
        "i", "n", "t", "e", "r", "a", "c", "t", "i", "o", "n", "s">>,
      <<"I", "/", "O">>>>

\* fetch_recent_interactions(limit) on the committed store d; fault says that
\* connecting or selecting raises.
fetch_recent_interactions(limit, d, fault) ==
    IF fault THEN <<ErrorRow>>
    ELSE LET rows == Limit(RowsByIdDesc(d.interactions), limit)
         IN [i \in 1..Len(rows) |-> LogTuple(rows[i])]

Limits == {-1, 0, 1, 2, DefaultLimit}

VARIABLES
    chatbot,       \* per browser session, the value of the Chatbot component
    queue,         \* on_submit events waiting in the Gradio queue
    active,        \* on_submit events being run
    nTurns,        \* submissions so far
    lastTurn,      \* how the handle_message call that ended last ended
    turnsReturned, \* history: handle_message calls that returned
    fetched        \* the last call of fetch_recent_interactions and its rows

clientVars == <<chatbot, queue, active, nTurns, lastTurn, turnsReturned, fetched>>

NoTurn ==
    [outcome |-> "none", msg |-> <<>>, reply |-> <<>>, before |-> <<>>,
     chat |-> <<>>, logged |-> FALSE]

\* The user submits a message from a browser session, by the button or the textbox.
Submit(s, via, msg) ==
    /\ nTurns < MaxTurns
    /\ nTurns' = nTurns + 1
    /\ queue' = Append(queue, [ticket |-> nTurns + 1, session |-> s, via |-> via,
                               msg |-> msg, chat |-> chatbot[s]])
    /\ UNCHANGED <<chatbot, active, lastTurn, turnsReturned, fetched>>
    /\ UNCHANGED serverVars

\* The queue hands its oldest event to on_submit -> handle_message, which checks
\* chat_history, appends the user entry and takes the start time.
StartTurn ==
    /\ queue # <<>>
    /\ Cardinality(active) < concurrency_count
    /\ LET ev == Head(queue)
           chat_history == IF ev.chat.valid THEN ev.chat.entries ELSE <<>>
       IN active' = active \cup
              {[ticket |-> ev.ticket, session |-> ev.session, msg |-> ev.msg,
                before |-> chat_history,
                chat_history |-> Append(chat_history, Entry("user", ev.msg)),
                pc |-> "agent", reply |-> <<>>]}
    /\ queue' = Tail(queue)
    /\ UNCHANGED <<chatbot, nTurns, lastTurn, turnsReturned, fetched>>
    /\ UNCHANGED serverVars

\* reply = loop.run_until_complete(async_handle_message(message))
RunAgent(j, outcome) ==
    /\ j \in active
    /\ j.pc = "agent"
    /\ LET r == async_handle_message(j.msg, outcome)
       IN IF r.raised
          THEN \* the exception leaves handle_message and on_submit
               /\ active' = active \ {j}
               /\ lastTurn' = [outcome |-> "raised", msg |-> j.msg, reply |-> <<>>,
                               before |-> j.before, chat |-> j.chat_history,
                               logged |-> FALSE]
          ELSE /\ active' = (active \ {j}) \cup {[j EXCEPT !.pc = "log", !.reply = r.reply]}
               /\ UNCHANGED lastTurn
    /\ UNCHANGED <<chatbot, queue, nTurns, turnsReturned, fetched>>
    /\ UNCHANGED serverVars

\* Another connection cannot write demo.db while the server's connection holds
\* its write transaction open (the INSERT is refused) or keeps a result set
\* with unfetched rows on its cursor (the commit is refused): "database is locked".
StoreLocked == inTx \/ cursorRows # <<>>

\* The rest of handle_message (append the assistant entry, record the
\* interaction, return) and of on_submit (update_recent_display, the outputs).
\* Recording fails when the store fails (logFault) or is locked by the server.
FinishTurn(j, logFault, fetchFault) ==
    /\ j \in active
    /\ j.pc = "log"
    /\ active' = active \ {j}
    /\ LET chat_history == Append(j.chat_history, Entry("assistant", j.reply))
           failed == logFault \/ StoreLocked
           stored == IF failed THEN disk ELSE LogInteraction(disk, j.msg, j.reply)
       IN /\ disk' = stored
          /\ db' = IF failed THEN db ELSE LogInteraction(db, j.msg, j.reply)
          /\ IF failed /\ ~LogCatches("OperationalError")
             THEN /\ lastTurn' = [outcome |-> "raised", msg |-> j.msg, reply |-> j.reply,
                                  before |-> j.before, chat |-> chat_history,
                                  logged |-> FALSE]
                  /\ UNCHANGED <<chatbot, turnsReturned, fetched>>
             ELSE /\ lastTurn' = [outcome |-> "returned", msg |-> j.msg, reply |-> j.reply,
                                  before |-> j.before, chat |-> chat_history,
                                  logged |-> ~failed]
                  /\ turnsReturned' = turnsReturned + 1
                  /\ chatbot' = [chatbot EXCEPT ![j.session] =
                                    [valid |-> TRUE, entries |-> chat_history]]
                  /\ fetched' = [called |-> TRUE, limit |-> DefaultLimit, failed |-> fetchFault,
                                 rows |-> fetch_recent_interactions(DefaultLimit, stored, fetchFault)]
    /\ UNCHANGED <<queue, nTurns>>
    /\ UNCHANGED <<inTx, cursorRows, inflight, nCalls, lastResp, inserted, wiped>>

\* clear_btn.click: lambda: ([], "", update_recent_display())
ClearChat(s, fetchFault) ==
    /\ chatbot' = [chatbot EXCEPT ![s] = [valid |-> TRUE, entries |-> <<>>]]
    /\ fetched' = [called |-> TRUE, limit |-> DefaultLimit, failed |-> fetchFault,
                   rows |-> fetch_recent_interactions(DefaultLimit, disk, fetchFault)]
    /\ UNCHANGED <<queue, active, nTurns, lastTurn, turnsReturned>>
    /\ UNCHANGED serverVars

\* fetch_recent_interactions(limit), called with any limit.
FetchRecent(limit, fetchFault) ==
    /\ fetched' = [called |-> TRUE, limit |-> limit, failed |-> fetchFault,
                   rows |-> fetch_recent_interactions(limit, disk, fetchFault)]
    /\ UNCHANGED <<chatbot, queue, active, nTurns, lastTurn, turnsReturned>>
    /\ UNCHANGED serverVars

InitClient ==
    /\ chatbot = [s \in Sessions |-> [valid |-> FALSE, entries |-> <<>>]]
    /\ queue = <<>>
    /\ active = {}
    /\ nTurns = 0
    /\ lastTurn = NoTurn
    /\ turnsReturned = 0
    /\ fetched = [called |-> FALSE, limit |-> 0, failed |-> FALSE, rows |-> <<>>]

\* ------------------------------------------------- reply post-processing
VARIABLES
    text,   \* a reply text
    once,   \* clean_response(text)
    twice,  \* clean_response(clean_response(text))
    passes  \* how many passes were made

cleanVars == <<text, once, twice, passes>>

vars == <<serverVars, clientVars, cleanVars>>

InitIdle ==
    /\ text = <<>>
    /\ once = <<>>
    /\ twice = <<>>
    /\ passes = 0

Init == InitServer /\ InitClient /\ InitIdle

\* The Tool Server under every tool call of Queries, the chat client idle.
NextServer ==
    \/ \E tool \in {"add_data", "read_data"}, q \in Queries :
          CallTool(tool, q) /\ UNCHANGED clientVars /\ UNCHANGED cleanVars
    \/ \E c \in inflight : AddData(c) /\ UNCHANGED clientVars /\ UNCHANGED cleanVars
    \/ \E c \in inflight : ReadData(c) /\ UNCHANGED clientVars /\ UNCHANGED cleanVars

Spec == Init /\ [][NextServer]_vars

\* The chat client alone: submissions from every session and listener, the
\* queue, the turns and the display.
NextChat ==
    \/ \E s \in Sessions, via \in Listeners, msg \in Msgs :
          Submit(s, via, msg) /\ UNCHANGED cleanVars
    \/ StartTurn /\ UNCHANGED cleanVars
    \/ \E j \in active, o \in AgentOutcomes : RunAgent(j, o) /\ UNCHANGED cleanVars
    \/ \E j \in active, lf \in BOOLEAN, ff \in BOOLEAN :
          FinishTurn(j, lf, ff) /\ UNCHANGED cleanVars
    \/ \E s \in Sessions, ff \in BOOLEAN : ClearChat(s, ff) /\ UNCHANGED cleanVars

SpecChat == Init /\ [][NextChat]_vars

\* The tool calls that touch the interactions table.
LogQueries == {Query("delete_interactions", "-")}

\* The agent outcomes the log is filled from: two different replies.
LogOutcomes == {o \in AgentOutcomes : o.at = "await" \/ o.text = <<"o", "k">>}

\* The interaction log: the turns of one session recording interactions while
\* the Tool Server runs the tool calls of LogQueries on the same demo.db.
NextLog ==
    \/ \E tool \in {"add_data", "read_data"}, q \in LogQueries :
          /\ nCalls < MaxLogCalls
          /\ CallTool(tool, q) /\ UNCHANGED clientVars /\ UNCHANGED cleanVars
    \/ \E c \in inflight : AddData(c) /\ UNCHANGED clientVars /\ UNCHANGED cleanVars
    \/ \E c \in inflight : ReadData(c) /\ UNCHANGED clientVars /\ UNCHANGED cleanVars
    \/ \E msg \in Msgs : Submit(1, "click", msg) /\ UNCHANGED cleanVars
    \/ StartTurn /\ UNCHANGED cleanVars
    \/ \E j \in active, o \in LogOutcomes : RunAgent(j, o) /\ UNCHANGED cleanVars
    \/ \E j \in active, lf \in BOOLEAN, ff \in BOOLEAN :
          FinishTurn(j, lf, ff) /\ UNCHANGED cleanVars

SpecLog == Init /\ [][NextLog]_vars

\* fetch_recent_interactions called with every limit of Limits, in every state
\* of the log the turns of one session build.
NextFetch ==
    \/ \E msg \in Msgs : Submit(1, "click", msg) /\ UNCHANGED cleanVars
    \/ StartTurn /\ UNCHANGED cleanVars
    \/ \E j \in active, o \in LogOutcomes : RunAgent(j, o) /\ UNCHANGED cleanVars
    \/ \E j \in active, lf \in BOOLEAN, ff \in BOOLEAN :
          FinishTurn(j, lf, ff) /\ UNCHANGED cleanVars
    \/ \E n \in Limits, ff \in BOOLEAN : FetchRecent(n, ff) /\ UNCHANGED cleanVars

SpecFetch == Init /\ [][NextFetch]_vars

\* clean_response applied once, then to its own output, on every reply text
\* put together from at most MaxPieces pieces.
InitClean ==
    /\ InitServer
    /\ InitClient
    /\ text \in {Flatten(ps) : ps \in PieceSeqs}
    /\ once = <<>>
    /\ twice = <<>>
    /\ passes = 0

CleanOnce ==
    /\ passes = 0
    /\ once' = clean_response(text)
    /\ passes' = 1
    /\ UNCHANGED <<text, twice>>
    /\ UNCHANGED <<serverVars, clientVars>>

CleanTwice ==
    /\ passes = 1
    /\ twice' = clean_response(once)
    /\ passes' = 2
    /\ UNCHANGED <<text, once>>
    /\ UNCHANGED <<serverVars, clientVars>>

NextClean == CleanOnce \/ CleanTwice

SpecClean == InitClean /\ [][NextClean]_vars

\* ------------------------------------------------------------------ claims
\* The tool call c is run in this step.
Served(c) == c \in inflight /\ c \notin inflight'

Contains(rows, t) == \E i \in 1..Len(rows) : rows[i] = t

Min(a, b) == IF a <= b THEN a ELSE b

\* C1 as stated: a valid INSERT through add_data returns True, and EVERY later
\* read_data of SELECT * FROM people returns the inserted row.
C1_EveryLaterRead ==
    [][\A c \in inflight :
          /\ (Served(c) /\ c.tool = "add_data" /\ c.query.kind = "insert_person")
                => lastResp'.ok
          /\ (Served(c) /\ c.tool = "read_data" /\ c.query.kind = "select_people")
                => \A r \in inserted : Contains(lastResp'.rows, PersonTuple(r))]_vars

\* C1 amended: a valid INSERT through add_data returns True and adds one row
\* with a fresh id, committed; a later read_data of SELECT * FROM people returns
\* every such row over which no DELETE FROM people has run since.
C1_ReadsUntilDeleted ==
    [][\A c \in inflight :
          /\ (Served(c) /\ c.tool = "add_data" /\ c.query.kind = "insert_person")
                => /\ lastResp'.ok
                   /\ \E r \in disk'.people :
                         /\ r \notin db.people
                         /\ r.id > db.seqP
                         /\ r.person = c.query.person
                         /\ db'.people = db.people \cup {r}
          /\ (Served(c) /\ c.tool = "read_data" /\ c.query.kind = "select_people")
                => \A r \in inserted \ wiped : Contains(lastResp'.rows, PersonTuple(r))]_vars

\* C1 witness: a read_data of SELECT * FROM people has returned rows that
\* add_data inserted before.
C1_Witness ==
    /\ lastResp.tool = "read_data"
    /\ lastResp.query.kind = "select_people"
    /\ Cardinality(inserted) = 2
    /\ wiped = {}
    /\ \A r \in inserted : Contains(lastResp.rows, PersonTuple(r))

\* C2: for a malformed SQL text add_data returns False and read_data returns
\* the empty sequence, and no exception leaves the tool function.
C2_MalformedIsCaught ==
    lastResp.query.kind = "malformed"
        => /\ ~lastResp.escaped
           /\ ~lastResp.ok
           /\ lastResp.rows = <<>>

\* C2 witness: add_data has run a malformed text while the connection held
\* uncommitted changes, and left them as they were.
C2_Witness ==
    /\ lastResp.query.kind = "malformed"
    /\ lastResp.tool = "add_data"
    /\ inTx
    /\ db # disk

\* C3 as stated: no exception of the agent leaves handle_message; every turn
\* that ends leaves an assistant entry as the last entry of the chat history.
C3_TurnAlwaysReplies ==
    lastTurn.outcome # "none"
        => /\ lastTurn.outcome = "returned"
           /\ lastTurn.chat # <<>>
           /\ lastTurn.chat[Len(lastTurn.chat)].role = "assistant"

\* C4: when recording the interaction fails, handle_message still returns the
\* chat history it was given followed by the user entry and the assistant
\* entry of the turn, and the Chatbot shows it.
C4_LogFailureKeepsReply ==
    [][\A j \in active :
          (j.pc = "log" /\ j \notin active')
             => /\ lastTurn'.outcome = "returned"
                /\ lastTurn'.chat = j.before \o <<Entry("user", j.msg),
                                                   Entry("assistant", j.reply)>>
                /\ chatbot'[j.session] = [valid |-> TRUE, entries |-> lastTurn'.chat]]_vars

\* C4 witness: a turn has returned its reply although recording it failed.
C4_Witness ==
    /\ lastTurn.outcome = "returned"
    /\ ~lastTurn.logged
    /\ Len(lastTurn.chat) = 4
    /\ disk.interactions = {}

\* C5 as stated: the interactions table holds exactly one record for each
\* handle_message call that returned, and no step changes or removes a record.
C5_OneRecordPerTurn ==
    [][/\ Cardinality(disk'.interactions) = turnsReturned'
       /\ disk.interactions \subseteq disk'.interactions]_vars

\* C5 amended: a handle_message call that returns adds exactly one record, of
\* its prompt and reply, when recording succeeded, and none when it failed,
\* and keeps the records there are; every other change of the table is made
\* in a step of the Tool Server (a statement passed to add_data or read_data).
C5_RecordsOfTurns ==
    [][/\ (turnsReturned' # turnsReturned)
             => IF lastTurn'.logged
                THEN \E r \in disk'.interactions :
                        /\ r \notin disk.interactions
                        /\ r.id > disk.seqI
                        /\ r.prompt = lastTurn'.msg
                        /\ r.response = lastTurn'.reply
                        /\ disk'.interactions = disk.interactions \cup {r}
                ELSE disk'.interactions = disk.interactions
       /\ (turnsReturned' = turnsReturned /\ disk'.interactions # disk.interactions)
             => \E c \in inflight : Served(c)]_vars

\* C5 witness: two turns have returned, one recorded and one not.
C5_Witness ==
    /\ turnsReturned = 2
    /\ lastTurn.logged
    /\ Cardinality(disk.interactions) = 1
    /\ disk.seqI = 1

\* The rows fetch_recent_interactions returned are the first ones of the log
\* in descending id order.
NewestFirst(rows, log) ==
    \A i \in 1..Len(rows) :
        \E r \in log :
            /\ LogTuple(r) = rows[i]
            /\ Cardinality({x \in log : x.id > r.id}) = i - 1

\* C6 as stated: for every limit n >= 0, fetch_recent_interactions(n) returns at
\* most n records, newest first, and none for n = 0, in every state of the log
\* and also when retrieval fails.
C6_AtMostN ==
    [][(fetched' # fetched /\ fetched'.limit >= 0)
          => /\ Len(fetched'.rows) <= fetched'.limit
             /\ (fetched'.limit = 0 => fetched'.rows = <<>>)
             /\ NewestFirst(fetched'.rows, disk'.interactions)]_vars

\* C6 amended: when retrieval succeeds, fetch_recent_interactions(n) returns
\* for n >= 0 the min(n, size of the log) newest records, newest first (none
\* for n = 0), and for n < 0 every record, newest first; when retrieval fails
\* it returns the one error row, whatever n is.
C6_AtMostNUnlessFailed ==
    [][fetched' # fetched
          => IF fetched'.failed
             THEN fetched'.rows = <<ErrorRow>>
             ELSE /\ NewestFirst(fetched'.rows, disk'.interactions)
                  /\ Len(fetched'.rows) =
                        IF fetched'.limit >= 0
                        THEN Min(fetched'.limit, Cardinality(disk'.interactions))
                        ELSE Cardinality(disk'.interactions)]_vars

\* C6 witness: with two different records in the log, a fetch with limit 1 has
\* returned the newer one alone.
C6_Witness ==
    /\ fetched.called
    /\ ~fetched.failed
    /\ fetched.limit = 1
    /\ \E r1, r2 \in disk.interactions :
          /\ r1.id < r2.id
          /\ LogTuple(r1) # LogTuple(r2)
          /\ fetched.rows = <<LogTuple(r2)>>

\* C7 as stated: clean_response(clean_response(t)) = clean_response(t), and one
\* pass leaves no complete <think>...</think> block.
C7_CleanIdempotent ==
    /\ passes >= 1 => ~HasThinkBlock(once)
    /\ passes = 2 => twice = once

C9_ReadOnly ==
    [][\A c \in inflight :
          /\ (Served(c) /\ c.tool = "read_data") => (db' = db /\ disk' = disk)
          /\ (Served(c) /\ c.tool = "add_data")
                => disk' = IF Execute(c.query, disk).raised = "none"
                           THEN Execute(c.query, disk).db
                           ELSE disk]_vars

====
